---- MODULE Spec2Model ----
(***************************************************************************)
(* Model of the serverless form endpoints of nc-website: the waitlist,     *)
(* referral and alpha-signup handlers and the Turnstile verification       *)
(* helpers.  One function instance handles one invocation at a time; an    *)
(* invocation runs synchronously up to each await of an outbound fetch,    *)
(* and resumes when that fetch settles.                                    *)
(*                                                                         *)
(* JavaScript strings are sequences of one-character strings.  A value     *)
(* that is absent from the JSON body (undefined) is the one-element        *)
(* sequence Undefined, which is no string of characters.  Strings whose    *)
(* characters the code never inspects (enum-like values, fixed addresses)  *)
(* are one-element sequences holding the whole text.                       *)
(***************************************************************************)
EXTENDS Integers, Sequences, FiniteSets, TLC

\* ------------------------------------------------------------------ bounds
\* longest GitHub handle enumerated character by character
MaxHandleLen == 2

\* ------------------------------------------------------- program constants
\* motivation.length < 20
MinMotivationLen == 20
\* the {0,38} quantifier of githubPattern
GithubTailMax == 38

\* acc << 5
HashShift == 5
\* toString(36)
CodeRadix == 36
\* slice(0, 6)
CodeLen == 6
\* numbers are held as hi * Limb + lo with 0 <= lo < Limb, so that the 32-bit
\* shift and the wider double arithmetic around it stay within TLC's integers
Limb == 65536

ADMIN_EMAIL == << "bradley@neuralcommander.ai" >>
SENDGRID_MAIL_URL == "https://api.sendgrid.com/v3/mail/send"
SENDGRID_CONTACTS_URL == "https://api.sendgrid.com/v3/marketing/contacts"
TURNSTILE_VERIFY_URL == "https://challenges.cloudflare.com/turnstile/v0/siteverify"

\* ---------------------------------------------------------------- strings
Undefined == << "undefined" >>
EmptyStr == << >>

\* JavaScript truthiness of a string-or-undefined value: !v
Falsy(v) == v = Undefined \/ v = EmptyStr
Truthy(v) == ~Falsy(v)

UpperChars == << "A","B","C","D","E","F","G","H","I","J","K","L","M",
                 "N","O","P","Q","R","S","T","U","V","W","X","Y","Z" >>
LowerChars == << "a","b","c","d","e","f","g","h","i","j","k","l","m",
                 "n","o","p","q","r","s","t","u","v","w","x","y","z" >>
DigitChars == << "0","1","2","3","4","5","6","7","8","9" >>

Range(f) == { f[i] : i \in DOMAIN f }

\* the character class [a-zA-Z0-9]
IsAlnum(c) == c \in Range(UpperChars) \cup Range(LowerChars) \cup Range(DigitChars)

\* String.prototype.includes for a one-character needle
Includes(s, c) == \E i \in 1..Len(s) : s[i] = c

ToLowerChar(c) ==
  IF \E i \in 1..Len(UpperChars) : UpperChars[i] = c
  THEN LowerChars[CHOOSE i \in 1..Len(UpperChars) : UpperChars[i] = c]
  ELSE c

\* String.prototype.toLowerCase
ToLowerCase(s) == [ i \in 1..Len(s) |-> ToLowerChar(s[i]) ]

\* c repeated n times
Rep(c, n) == [ i \in 1..n |-> c ]

\* all strings over alphabet A of length at most n
StringsUpTo(A, n) == UNION { [1..k -> A] : k \in 0..n }

\* -------------------------------------------------------------- variables
VARIABLES
  env,       \* module-level constants read from process.env at load
  pc,        \* position of the running invocation
  fn,        \* which exported function the invocation runs
  req,       \* the request: method, body
  calls,     \* outbound fetches started by this invocation, in order
  inflight,  \* indices into calls of the fetches not yet settled
  replies,   \* how each settled fetch of calls settled, in order
  res,       \* responses sent by this invocation, in order
  log,       \* console output of this invocation, in order
  args,      \* arguments of the bot verifier call of this invocation
  ret,       \* value the bot verifier returned to its caller
  issued     \* referral codes generated, as << referrerEmail, referralCode >>

vars == << env, pc, fn, req, calls, inflight, replies, res, log, args, ret, issued >>

\* ------------------------------------------------------------ environment
EnvValues == { Undefined, EmptyStr, << "k" >> }
Envs == [ SENDGRID_API_KEY : EnvValues, TURNSTILE_SECRET_KEY : EnvValues ]

\* ---------------------------------------------------------------- requests
Methods == { "POST", "OPTIONS", "GET" }

\* req.body is null when the request carries no body
Request(method, hasBody, body) == [ method |-> method, hasBody |-> hasBody, body |-> body ]
NoRequest == Request("none", FALSE, << >>)

\* the requests of one endpoint: every POST body of Bodies, a POST without a
\* body, and the other methods with and without a body
RequestsOf(Bodies, sample) ==
  { Request("POST", TRUE, b) : b \in Bodies }
    \cup { Request(m, FALSE, << >>) : m \in Methods }
    \cup { Request(m, TRUE, sample) : m \in Methods \ { "POST" } }

\* settlements of a fetch of the email API whose response status is read
MailOutcomes == { "ok", "non2xx", "non2xx_textthrows", "throw" }
\* settlements of a fetch whose response is never looked at
BlindOutcomes == { "ok", "non2xx", "throw" }

\* ---------------------------------------------------------- handler steps
\* data: the recipients of an email or contact call, the form values of a verification call
Call(url, method, job, data) == [ url |-> url, method |-> method, job |-> job, data |-> data ]

\* the fetch awaited last has settled when a handler step runs
Settled == inflight \ { Len(calls) }

\* variant: the fetch is started while the one before it is still pending
AwaitFetch_Overlapping(c, next) ==
  /\ calls' = Append(calls, c)
  /\ inflight' = inflight \cup { Len(calls) + 1 }
  /\ pc' = next
  /\ UNCHANGED res

\* await fetch(c): the invocation suspends at next until the fetch settles
AwaitFetch(c, next) ==
  /\ calls' = Append(calls, c)
  /\ inflight' = Settled \cup { Len(calls) + 1 }
  /\ pc' = next
  /\ UNCHANGED res

Json(status, body) == [ status |-> status, body |-> body ]
ErrorBody(msg) == [ kind |-> "error", text |-> msg ]
SuccessBody(msg) == [ kind |-> "success", text |-> msg ]
EndBody == [ kind |-> "end", text |-> "" ]

\* return res.status(status).json(body)
Respond(status, body) ==
  /\ res' = Append(res, Json(status, body))
  /\ pc' = "done"
  /\ inflight' = Settled
  /\ UNCHANGED calls

Logged(msgs) == log' = log \o msgs

VerifierArgs(token, secretKey, remoteip) ==
  [ token |-> token, secretKey |-> secretKey, remoteip |-> remoteip ]
NoArgs == VerifierArgs(Undefined, Undefined, Undefined)

\* the platform invokes exported function f with request r
Enter(f, r) ==
  /\ pc = "idle"
  /\ fn' = f
  /\ req' = r
  /\ UNCHANGED << env, replies >>
  /\ f # "referral" => UNCHANGED issued

\* the invocation of f suspended at `at` resumes: its fetch has settled as o
Wake(f, at, o) ==
  /\ fn = f
  /\ pc = at
  /\ replies' = Append(replies, o)
  /\ UNCHANGED << env, fn, req, issued >>

Begin(f, r) == Enter(f, r) /\ UNCHANGED << args, ret >>
Resume(f, at, o) == Wake(f, at, o) /\ UNCHANGED << args, ret >>

\* variant: only the preflight is answered early
MethodCheck_PreflightOnly(r, rest) ==
  IF r.method = "OPTIONS" THEN Respond(200, EndBody) /\ Logged(<< >>)
  ELSE rest

\* the CORS preamble and method check shared by the three handlers
MethodCheck(r, rest) ==
  IF r.method = "OPTIONS" THEN Respond(200, EndBody) /\ Logged(<< >>)
  ELSE IF r.method # "POST" THEN Respond(405, ErrorBody("Method not allowed")) /\ Logged(<< >>)
  ELSE rest

\* ------------------------------------------------------- waitlist endpoint
WaitlistEmails == { Undefined, EmptyStr, << "a", "b" >>, << "a", "@", "b" >> }
WaitlistNames == { Undefined, << "A", "n", "n" >> }
WaitlistTypes == { Undefined, << "waitlist" >>, << "foundation100" >> }
WaitlistBodies == [ email : WaitlistEmails, name : WaitlistNames, type : WaitlistTypes ]
WaitlistSample == [ email |-> << "a", "@", "b" >>, name |-> Undefined, type |-> << "waitlist" >> ]
WaitlistRequests == RequestsOf(WaitlistBodies, WaitlistSample)

\* variant: the error is thrown on to the platform, no response is sent
WaitlistCatch_Rethrown ==
  /\ pc' = "done"
  /\ inflight' = Settled
  /\ UNCHANGED << res, calls >>

WaitlistCatch == Respond(500, ErrorBody("Failed to process signup"))

WaitlistValid(b) == Truthy(b.email) /\ Includes(b.email, "@")

\* addToContactList(email, name, type), then the success response
WaitlistAddToContactList(b, msgs) ==
  IF Falsy(env.SENDGRID_API_KEY)
  THEN /\ Respond(200, SuccessBody("Successfully joined the waitlist!"))
       /\ Logged(msgs)
  ELSE /\ AwaitFetch(Call(SENDGRID_CONTACTS_URL, "PUT", "contacts", << b.email >>),
                     "waitlist_contacts")
       /\ Logged(msgs)

\* handler, from entry to the first await or response
WaitlistHandler(r) ==
  /\ Begin("waitlist", r)
  /\ MethodCheck(r,
       IF ~r.hasBody
       THEN WaitlistCatch /\ Logged(<< "Waitlist error" >>)
       ELSE IF ~WaitlistValid(r.body)
       THEN Respond(400, ErrorBody("Valid email required")) /\ Logged(<< >>)
       ELSE IF Falsy(env.SENDGRID_API_KEY)
       THEN /\ Respond(500, ErrorBody("Email service not configured"))
            /\ Logged(<< "SendGrid API key not configured" >>)
       ELSE /\ AwaitFetch(Call(SENDGRID_MAIL_URL, "POST", "user", << r.body.email >>),
                          "waitlist_user")
            /\ Logged(<< >>))

\* variant: the status of the user confirmation response is not checked
WaitlistUserSettles_StatusIgnored(o) ==
  /\ Resume("waitlist", "waitlist_user", o)
  /\ IF o \in { "ok", "non2xx" }
     THEN /\ AwaitFetch(Call(SENDGRID_MAIL_URL, "POST", "admin", << ADMIN_EMAIL >>),
                        "waitlist_admin")
          /\ Logged(<< >>)
     ELSE WaitlistCatch /\ Logged(<< "Waitlist error" >>)

\* the user confirmation fetch settles
WaitlistUserSettles(o) ==
  /\ Resume("waitlist", "waitlist_user", o)
  /\ CASE o = "ok" ->
            /\ AwaitFetch(Call(SENDGRID_MAIL_URL, "POST", "admin", << ADMIN_EMAIL >>),
                          "waitlist_admin")
            /\ Logged(<< >>)
       [] o = "non2xx" ->
            WaitlistCatch /\ Logged(<< "SendGrid error (user)", "Waitlist error" >>)
       [] OTHER ->
            WaitlistCatch /\ Logged(<< "Waitlist error" >>)

\* the admin notification fetch settles
WaitlistAdminSettles(o) ==
  /\ Resume("waitlist", "waitlist_admin", o)
  /\ CASE o = "ok" -> WaitlistAddToContactList(req.body, << >>)
       [] o = "non2xx" -> WaitlistAddToContactList(req.body, << "SendGrid error (admin)" >>)
       [] OTHER -> WaitlistCatch /\ Logged(<< "Waitlist error" >>)

\* the contact upsert fetch settles
WaitlistContactsSettles(o) ==
  /\ Resume("waitlist", "waitlist_contacts", o)
  /\ Respond(200, SuccessBody("Successfully joined the waitlist!"))
  /\ Logged(IF o = "throw" THEN << "Failed to add to contact list" >> ELSE << >>)

\* ------------------------------------------------------- referral endpoint
ReferralEmails ==
  { Undefined, EmptyStr, << "a", "b" >>, << "A", "b" >>,
    << "a", "@", "b" >>, << "A", "@", "b" >>, << "c", "@", "d" >>,
    << "a", "@", "b", ".", "c", "o" >>, << "a", "n", "n", "@", "x", ".", "i", "o" >> }
ReferralBodies ==
  [ referrerName : { Undefined, << "R" >> },
    referrerEmail : ReferralEmails,
    counterpartyAddress : { Undefined, << "addr" >> },
    friendName : { EmptyStr, << "F" >> },
    friendEmail : ReferralEmails ]
ReferralSample ==
  [ referrerName |-> << "R" >>, referrerEmail |-> << "a", "@", "b" >>,
    counterpartyAddress |-> Undefined,
    friendName |-> << "F" >>, friendEmail |-> << "c", "@", "d" >> ]
ReferralRequests == RequestsOf(ReferralBodies, ReferralSample)

ReferralCatch == Respond(500, ErrorBody("Failed to process referral"))

ReferralFieldsPresent(b) ==
  Truthy(b.referrerName) /\ Truthy(b.referrerEmail) /\ Truthy(b.friendName) /\ Truthy(b.friendEmail)

ReferralEmailsShaped(b) == Includes(b.referrerEmail, "@") /\ Includes(b.friendEmail, "@")

\* variant: the two addresses are compared as typed
SelfReferral_CaseSensitive(b) == b.referrerEmail = b.friendEmail

\* referrerEmail.toLowerCase() === friendEmail.toLowerCase()
SelfReferral(b) == ToLowerCase(b.referrerEmail) = ToLowerCase(b.friendEmail)

\* the validation chain: the error message of the first failing rule, or "" if none fails
ReferralValidationError(b) ==
  IF ~ReferralFieldsPresent(b) THEN "All required fields must be provided"
  ELSE IF ~ReferralEmailsShaped(b) THEN "Valid email addresses required"
  ELSE IF SelfReferral(b) THEN "You cannot refer yourself"
  ELSE ""

\* ---- generateReferralCode
\* char.charCodeAt(0), for the characters the inputs are made of
CharCodeAt(c) ==
  IF \E i \in 1..Len(UpperChars) : UpperChars[i] = c
  THEN 64 + (CHOOSE i \in 1..Len(UpperChars) : UpperChars[i] = c)
  ELSE IF \E i \in 1..Len(LowerChars) : LowerChars[i] = c
  THEN 96 + (CHOOSE i \in 1..Len(LowerChars) : LowerChars[i] = c)
  ELSE IF \E i \in 1..Len(DigitChars) : DigitChars[i] = c
  THEN 47 + (CHOOSE i \in 1..Len(DigitChars) : DigitChars[i] = c)
  ELSE CASE c = "@" -> 64
         [] c = "." -> 46
         [] c = "-" -> 45
         [] c = "_" -> 95
         [] c = "!" -> 33

\* the number hi * Limb + lo, with lo brought into 0..Limb-1
Num(hi, lo) == [ hi |-> hi + (lo \div Limb), lo |-> lo % Limb ]
Zero == Num(0, 0)

\* ToInt32: the number modulo 2^32, read as a signed 32-bit integer
ToInt32(n) ==
  LET m == n.hi % Limb
  IN  Num(IF m >= Limb \div 2 THEN m - Limb ELSE m, n.lo)

\* n << k
ShiftLeft(n, k) ==
  LET w == ToInt32(n)
  IN  ToInt32(Num(w.hi * 2^k, w.lo * 2^k))

Minus(a, b) == Num(a.hi - b.hi, a.lo - b.lo)
Plus(a, k) == Num(a.hi, a.lo + k)

\* ((acc << 5) - acc) + char.charCodeAt(0)
HashStep(acc, c) == Plus(Minus(ShiftLeft(acc, HashShift), acc), CharCodeAt(c))

Base36Digits == DigitChars \o LowerChars

\* the values the accumulator ranges over
Nums == [ hi : Int, lo : 0..(Limb - 1) ]

\* the reducer callback (acc, char) => ...
Reducer[acc \in Nums] == [ c \in Range(Base36Digits) \cup Range(UpperChars) \cup {"@", ".", "-", "_", "!"} |-> HashStep(acc, c) ]

\* email.split('').reduce(..., 0), over the first i characters
RECURSIVE Reduce(_, _)
Reduce(email, i) == IF i = 0 THEN Zero ELSE Reducer[Reduce(email, i - 1)][email[i]]

EmailHash(email) == Reduce(email, Len(email))

IsNegative(n) == n.hi < 0

\* Math.abs
Abs(n) == IF IsNegative(n) THEN Num(-n.hi, -n.lo) ELSE n

\* the digits of n >= 0 in radix CodeRadix, most significant first
RECURSIVE Digits36(_)
Digits36(n) ==
  LET low == (n.hi % CodeRadix) * Limb + n.lo
      quotient == Num(n.hi \div CodeRadix, low \div CodeRadix)
      digit == Base36Digits[(low % CodeRadix) + 1]
  IN  IF quotient = Zero THEN << digit >> ELSE Digits36(quotient) \o << digit >>

\* Number.prototype.toString(36)
ToString36(n) == IF IsNegative(n) THEN << "-" >> \o Digits36(Abs(n)) ELSE Digits36(n)

ToUpperChar(c) ==
  IF \E i \in 1..Len(LowerChars) : LowerChars[i] = c
  THEN UpperChars[CHOOSE i \in 1..Len(LowerChars) : LowerChars[i] = c]
  ELSE c

\* String.prototype.toUpperCase
ToUpperCase(s) == [ i \in 1..Len(s) |-> ToUpperChar(s[i]) ]

\* s.slice(0, n)
SliceFromStart(s, n) == SubSeq(s, 1, IF Len(s) < n THEN Len(s) ELSE n)

\* variant: the sign of the hash is kept
GenerateReferralCode_Signed(email) ==
  << "N", "C", "-" >> \o SliceFromStart(ToUpperCase(ToString36(EmailHash(email))), CodeLen)

\* generateReferralCode(email)
GenerateReferralCode(email) ==
  << "N", "C", "-" >> \o SliceFromStart(ToUpperCase(ToString36(Abs(EmailHash(email)))), CodeLen)

\* const referralCode = generateReferralCode(referrerEmail)
ReferralCodeOf(b) == GenerateReferralCode(b.referrerEmail)

\* handler, from entry to the first await or response
ReferralHandler(r) ==
  /\ Begin("referral", r)
  /\ IF r.method = "POST" /\ r.hasBody /\ ReferralValidationError(r.body) = ""
        /\ Truthy(env.SENDGRID_API_KEY)
     THEN issued' = issued \cup { << r.body.referrerEmail, ReferralCodeOf(r.body) >> }
     ELSE UNCHANGED issued
  /\ MethodCheck(r,
       IF ~r.hasBody
       THEN ReferralCatch /\ Logged(<< "Referral error" >>)
       ELSE IF ReferralValidationError(r.body) # ""
       THEN Respond(400, ErrorBody(ReferralValidationError(r.body))) /\ Logged(<< >>)
       ELSE IF Falsy(env.SENDGRID_API_KEY)
       THEN /\ Respond(500, ErrorBody("Email service not configured"))
            /\ Logged(<< "SendGrid API key not configured" >>)
       ELSE /\ AwaitFetch(Call(SENDGRID_MAIL_URL, "POST", "friend", << r.body.friendEmail >>),
                          "referral_friend")
            /\ Logged(<< >>))

\* variant: the admin notification follows the friend invite
ReferralFriendSettles_AdminNext(o) ==
  /\ Resume("referral", "referral_friend", o)
  /\ CASE o = "ok" ->
            /\ AwaitFetch(Call(SENDGRID_MAIL_URL, "POST", "admin", << ADMIN_EMAIL >>),
                          "referral_admin")
            /\ Logged(<< >>)
       [] o = "non2xx" ->
            ReferralCatch /\ Logged(<< "SendGrid error (friend)", "Referral error" >>)
       [] OTHER ->
            ReferralCatch /\ Logged(<< "Referral error" >>)

\* the friend invite fetch settles
ReferralFriendSettles(o) ==
  /\ Resume("referral", "referral_friend", o)
  /\ CASE o = "ok" ->
            /\ AwaitFetch(Call(SENDGRID_MAIL_URL, "POST", "referrer", << req.body.referrerEmail >>),
                          "referral_referrer")
            /\ Logged(<< >>)
       [] o = "non2xx" ->
            ReferralCatch /\ Logged(<< "SendGrid error (friend)", "Referral error" >>)
       [] OTHER ->
            ReferralCatch /\ Logged(<< "Referral error" >>)

\* the referrer confirmation fetch settles
ReferralReferrerSettles(o) ==
  /\ Resume("referral", "referral_referrer", o)
  /\ CASE o \in { "ok", "non2xx" } ->
            /\ AwaitFetch(Call(SENDGRID_MAIL_URL, "POST", "admin", << ADMIN_EMAIL >>),
                          "referral_admin")
            /\ Logged(IF o = "non2xx" THEN << "SendGrid error (referrer)" >> ELSE << >>)
       [] OTHER ->
            ReferralCatch /\ Logged(<< "Referral error" >>)

\* addReferralContacts(...), then the success response
AddReferralContacts(b, msgs) ==
  IF Falsy(env.SENDGRID_API_KEY)
  THEN /\ Respond(200, SuccessBody("Referral sent successfully!"))
       /\ Logged(msgs)
  ELSE /\ AwaitFetch(Call(SENDGRID_CONTACTS_URL, "PUT", "contacts",
                          << b.referrerEmail, b.friendEmail >>),
                     "referral_contacts")
       /\ Logged(msgs)

\* the admin notification fetch settles
ReferralAdminSettles(o) ==
  /\ Resume("referral", "referral_admin", o)
  /\ CASE o = "ok" -> AddReferralContacts(req.body, << >>)
       [] o = "non2xx" -> AddReferralContacts(req.body, << "SendGrid error (admin)" >>)
       [] OTHER -> ReferralCatch /\ Logged(<< "Referral error" >>)

\* the contact upsert fetch settles
ReferralContactsSettles(o) ==
  /\ Resume("referral", "referral_contacts", o)
  /\ Respond(200, SuccessBody("Referral sent successfully!"))
  /\ Logged(IF o = "throw" THEN << "Failed to add referral contacts" >> ELSE << >>)

\* ----------------------------------------------------------- bot verifier
\* settlements of the verification fetch and of response.json()
VerifyReplies ==
  { "throw", "unparseable", "json_null", "success_true", "success_false", "success_missing" }

Tokens == { Undefined, EmptyStr, << "t" >> }
VerifierInputs == [ token : Tokens, secretKey : EnvValues, remoteip : { Undefined, << "ip" >> } ]

\* the form posted by verifyTurnstileToken: secret, response and, if given, remoteip
TurnstileTokenForm(a) ==
  IF Truthy(a.remoteip) THEN << a.secretKey, a.token, a.remoteip >>
  ELSE << a.secretKey, a.token >>

\* the value verifyTurnstileToken returns once the fetch has settled
VerifyTurnstileTokenResult(reply) ==
  CASE reply = "success_true" -> "true"
    [] reply = "success_false" -> "false"
    [] reply = "success_missing" -> "undefined"
    [] OTHER -> "false"

VerifyTurnstileTokenLog(reply) ==
  CASE reply = "success_true" -> << >>
    [] reply \in { "success_false", "success_missing" } -> << "Turnstile verification failed" >>
    [] OTHER -> << "Turnstile verification error" >>

\* the verifier returns v to its caller
Return(v) ==
  /\ ret' = v
  /\ pc' = "done"
  /\ inflight' = Settled
  /\ UNCHANGED << calls, res >>

\* variant: an empty token is posted to the verification endpoint like any other
VerifyTurnstileToken_NoTokenCheck(a) ==
  /\ Enter("verifyTurnstileToken", NoRequest)
  /\ args' = a
  /\ IF Falsy(a.secretKey)
     THEN Return("true") /\ Logged(<< "Turnstile secret key not configured - skipping verification" >>)
     ELSE /\ AwaitFetch(Call(TURNSTILE_VERIFY_URL, "POST", "turnstile", TurnstileTokenForm(a)),
                        "token_fetch")
          /\ Logged(<< >>)
          /\ UNCHANGED ret

\* variant: the token is checked before the secret
VerifyTurnstileToken_TokenFirst(a) ==
  /\ Enter("verifyTurnstileToken", NoRequest)
  /\ args' = a
  /\ IF Falsy(a.token)
     THEN Return("false") /\ Logged(<< "No Turnstile token provided" >>)
     ELSE IF Falsy(a.secretKey)
     THEN Return("true") /\ Logged(<< "Turnstile secret key not configured - skipping verification" >>)
     ELSE /\ AwaitFetch(Call(TURNSTILE_VERIFY_URL, "POST", "turnstile", TurnstileTokenForm(a)),
                        "token_fetch")
          /\ Logged(<< >>)
          /\ UNCHANGED ret

\* verifyTurnstileToken(token, secretKey, remoteip), to its first await or return
VerifyTurnstileToken(a) ==
  /\ Enter("verifyTurnstileToken", NoRequest)
  /\ args' = a
  /\ IF Falsy(a.secretKey)
     THEN Return("true") /\ Logged(<< "Turnstile secret key not configured - skipping verification" >>)
     ELSE IF Falsy(a.token)
     THEN Return("false") /\ Logged(<< "No Turnstile token provided" >>)
     ELSE /\ AwaitFetch(Call(TURNSTILE_VERIFY_URL, "POST", "turnstile", TurnstileTokenForm(a)),
                        "token_fetch")
          /\ Logged(<< >>)
          /\ UNCHANGED ret

VerifyTurnstileTokenSettles(reply) ==
  /\ Wake("verifyTurnstileToken", "token_fetch", reply)
  /\ Return(VerifyTurnstileTokenResult(reply))
  /\ Logged(VerifyTurnstileTokenLog(reply))
  /\ UNCHANGED args

\* variant: the catch block lets the submission through
VerifyTurnstileResult_FailOpen(reply) ==
  CASE reply = "success_true" -> "true"
    [] reply = "success_false" -> "false"
    [] reply = "success_missing" -> "undefined"
    [] OTHER -> "true"

\* the value the alpha handler's verifyTurnstile returns once the fetch has settled
VerifyTurnstileResult(reply) ==
  CASE reply = "success_true" -> "true"
    [] reply = "success_false" -> "false"
    [] reply = "success_missing" -> "undefined"
    [] OTHER -> "false"

VerifyTurnstileLog(reply) ==
  IF reply \in { "throw", "unparseable", "json_null" }
  THEN << "Turnstile verification error" >> ELSE << >>

\* verifyTurnstile(token) called on its own, to its first await or return
VerifyTurnstile(token) ==
  /\ Enter("verifyTurnstile", NoRequest)
  /\ args' = VerifierArgs(token, env.TURNSTILE_SECRET_KEY, Undefined)
  /\ IF Falsy(env.TURNSTILE_SECRET_KEY)
     THEN Return("true") /\ Logged(<< >>)
     ELSE /\ AwaitFetch(Call(TURNSTILE_VERIFY_URL, "POST", "turnstile",
                             << env.TURNSTILE_SECRET_KEY, token >>),
                        "turnstile_fetch")
          /\ Logged(<< >>)
          /\ UNCHANGED ret

VerifyTurnstileSettles(reply) ==
  /\ Wake("verifyTurnstile", "turnstile_fetch", reply)
  /\ Return(VerifyTurnstileResult(reply))
  /\ Logged(VerifyTurnstileLog(reply))
  /\ UNCHANGED args

\* ---------------------------------------------------------- alpha endpoint
\* the {0,38} repetition of githubPattern from position i, n repetitions done
RECURSIVE GithubTail(_, _, _)
GithubTail(s, i, n) ==
  IF i > Len(s) THEN TRUE
  ELSE IF n >= GithubTailMax THEN FALSE
  ELSE IF IsAlnum(s[i]) THEN GithubTail(s, i + 1, n + 1)
  ELSE IF s[i] = "-" /\ i + 1 <= Len(s) /\ IsAlnum(s[i + 1]) THEN GithubTail(s, i + 1, n + 1)
  ELSE FALSE

\* variant: the hyphen's lookahead is (?!-), which a hyphen at the end passes
RECURSIVE GithubTailNotHyphen(_, _, _)
GithubTailNotHyphen(s, i, n) ==
  IF i > Len(s) THEN TRUE
  ELSE IF n >= GithubTailMax THEN FALSE
  ELSE IF IsAlnum(s[i]) THEN GithubTailNotHyphen(s, i + 1, n + 1)
  ELSE IF s[i] = "-" /\ (i + 1 > Len(s) \/ s[i + 1] # "-") THEN GithubTailNotHyphen(s, i + 1, n + 1)
  ELSE FALSE

GithubPatternTest_NotHyphen(s) == Len(s) >= 1 /\ IsAlnum(s[1]) /\ GithubTailNotHyphen(s, 2, 0)

\* githubPattern.test(github)
GithubPatternTest(s) == Len(s) >= 1 /\ IsAlnum(s[1]) /\ GithubTail(s, 2, 0)

GithubAlphabet == { "a", "7", "-", "_" }
GithubHandles ==
  { Undefined }
    \cup StringsUpTo(GithubAlphabet, MaxHandleLen)
    \cup { Rep("a", GithubTailMax) \o t : t \in StringsUpTo({ "a", "-" }, 2) }
    \cup { << "b", "a", "d", "_", "n", "a", "m", "e", "!" >> }

AlphaBodies ==
  [ name : { Undefined, << "N" >> },
    email : { EmptyStr, << "a", "b" >>, << "a", "@", "b" >> },
    github : GithubHandles,
    discovery : { Undefined, << "twitter" >> },
    motivation : { EmptyStr, Rep("m", MinMotivationLen - 1), Rep("m", MinMotivationLen) },
    turnstileToken : Tokens ]
AlphaSample ==
  [ name |-> << "N" >>, email |-> << "a", "@", "b" >>, github |-> << "a" >>,
    discovery |-> << "twitter" >>, motivation |-> Rep("m", MinMotivationLen),
    turnstileToken |-> << "t" >> ]
AlphaRequests == RequestsOf(AlphaBodies, AlphaSample)

AlphaCatch == Respond(500, ErrorBody("Failed to process signup"))
AlphaSuccess == Respond(200, SuccessBody("Alpha access request submitted!"))

\* variant: discovery is left out of the presence check
AlphaFieldsPresent_NoDiscovery(b) ==
  Truthy(b.name) /\ Truthy(b.email) /\ Truthy(b.github) /\ Truthy(b.motivation)

AlphaFieldsPresent(b) ==
  Truthy(b.name) /\ Truthy(b.email) /\ Truthy(b.github) /\ Truthy(b.discovery) /\ Truthy(b.motivation)

\* variant: the GitHub handle is checked right after the presence of the fields
AlphaValidationError_GithubSecond(b) ==
  IF ~AlphaFieldsPresent(b) THEN "All fields are required"
  ELSE IF ~GithubPatternTest(b.github) THEN "Invalid GitHub username format"
  ELSE IF ~Includes(b.email, "@") THEN "Valid email required"
  ELSE IF Len(b.motivation) < MinMotivationLen THEN "Please provide a more detailed motivation"
  ELSE ""

\* the validation chain: the error message of the first failing rule, or "" if none fails
AlphaValidationError(b) ==
  IF ~AlphaFieldsPresent(b) THEN "All fields are required"
  ELSE IF ~Includes(b.email, "@") THEN "Valid email required"
  ELSE IF Len(b.motivation) < MinMotivationLen THEN "Please provide a more detailed motivation"
  ELSE IF ~GithubPatternTest(b.github) THEN "Invalid GitHub username format"
  ELSE ""

\* the guard of the Turnstile check in the handler
AlphaVerifies(b) == Truthy(env.TURNSTILE_SECRET_KEY) /\ Truthy(b.turnstileToken)

\* variant: the dispatch does not look at the email API key
AlphaDispatch_KeyIgnored(msgs) ==
  /\ AwaitFetch(Call(SENDGRID_MAIL_URL, "POST", "admin", << ADMIN_EMAIL >>), "alpha_admin")
  /\ Logged(msgs \o << "NEW ALPHA SIGNUP" >>)

\* the signup is logged and the dispatch begins
AlphaDispatch(msgs) ==
  IF Truthy(env.SENDGRID_API_KEY)
  THEN /\ AwaitFetch(Call(SENDGRID_MAIL_URL, "POST", "admin", << ADMIN_EMAIL >>), "alpha_admin")
       /\ Logged(msgs \o << "NEW ALPHA SIGNUP" >>)
  ELSE /\ AlphaSuccess
       /\ Logged(msgs \o << "NEW ALPHA SIGNUP",
                            "SendGrid not configured - signup logged but no emails sent" >>)

\* handler, from entry to the first await or response
AlphaHandler(r) ==
  /\ Enter("alpha", r)
  /\ UNCHANGED ret
  /\ IF r.method = "POST" /\ r.hasBody /\ AlphaValidationError(r.body) = "" /\ AlphaVerifies(r.body)
     THEN \* verifyTurnstile(turnstileToken) up to its fetch
          /\ args' = VerifierArgs(r.body.turnstileToken, env.TURNSTILE_SECRET_KEY, Undefined)
          /\ AwaitFetch(Call(TURNSTILE_VERIFY_URL, "POST", "turnstile",
                             << env.TURNSTILE_SECRET_KEY, r.body.turnstileToken >>),
                        "alpha_turnstile")
          /\ Logged(<< >>)
     ELSE /\ UNCHANGED args
          /\ MethodCheck(r,
               IF ~r.hasBody
               THEN AlphaCatch /\ Logged(<< "Alpha signup error" >>)
               ELSE IF AlphaValidationError(r.body) # ""
               THEN Respond(400, ErrorBody(AlphaValidationError(r.body))) /\ Logged(<< >>)
               ELSE AlphaDispatch(<< >>))

\* the verification fetch of the handler's verifyTurnstile call settles
AlphaTurnstileSettles(reply) ==
  /\ Wake("alpha", "alpha_turnstile", reply)
  /\ UNCHANGED args
  /\ ret' = VerifyTurnstileResult(reply)
  /\ IF VerifyTurnstileResult(reply) # "true"
     THEN /\ Respond(400, ErrorBody("Bot verification failed. Please try again."))
          /\ Logged(VerifyTurnstileLog(reply))
     ELSE AlphaDispatch(VerifyTurnstileLog(reply))

\* the inner catch of the dispatch: log and continue to the success response
AlphaEmailError == AlphaSuccess /\ Logged(<< "Email sending error" >>)

\* variant: the admin notification has a try block of its own
AlphaAdminSettles_OwnTry(o) ==
  /\ Resume("alpha", "alpha_admin", o)
  /\ AwaitFetch(Call(SENDGRID_MAIL_URL, "POST", "user", << req.body.email >>), "alpha_user")
  /\ Logged(IF o = "throw" THEN << "Email sending error" >> ELSE << >>)

\* sendAdminNotification's fetch settles
AlphaAdminSettles(o) ==
  /\ Resume("alpha", "alpha_admin", o)
  /\ IF o = "throw" THEN AlphaEmailError
     ELSE /\ AwaitFetch(Call(SENDGRID_MAIL_URL, "POST", "user", << req.body.email >>), "alpha_user")
          /\ Logged(<< >>)

\* variant: sendUserConfirmation throws on a non-2xx response, past the inner catch
AlphaUserSettles_Critical(o) ==
  /\ Resume("alpha", "alpha_user", o)
  /\ CASE o = "throw" -> AlphaEmailError
       [] o = "non2xx" -> AlphaCatch /\ Logged(<< "Alpha signup error" >>)
       [] OTHER ->
            /\ AwaitFetch(Call(SENDGRID_CONTACTS_URL, "PUT", "contacts", << req.body.email >>),
                          "alpha_contacts")
            /\ Logged(<< >>)

\* sendUserConfirmation's fetch settles
AlphaUserSettles(o) ==
  /\ Resume("alpha", "alpha_user", o)
  /\ IF o = "throw" THEN AlphaEmailError
     ELSE /\ AwaitFetch(Call(SENDGRID_CONTACTS_URL, "PUT", "contacts", << req.body.email >>),
                        "alpha_contacts")
          /\ Logged(<< >>)

\* addToContactList's fetch settles
AlphaContactsSettles(o) ==
  /\ Resume("alpha", "alpha_contacts", o)
  /\ AlphaSuccess
  /\ Logged(IF o = "throw" THEN << "Failed to add to contact list" >> ELSE << >>)

\* ------------------------------------------------------------- life cycle
\* the invocation has returned; the instance is free for the next one
Finish ==
  /\ pc = "done"
  /\ pc' = "idle"
  /\ fn' = "none"
  /\ req' = NoRequest
  /\ calls' = << >>
  /\ inflight' = { }
  /\ replies' = << >>
  /\ res' = << >>
  /\ log' = << >>
  /\ args' = NoArgs
  /\ ret' = "none"
  /\ issued' = { }
  /\ UNCHANGED env

Init ==
  /\ env \in Envs
  /\ pc = "idle"
  /\ fn = "none"
  /\ req = NoRequest
  /\ calls = << >>
  /\ inflight = { }
  /\ replies = << >>
  /\ res = << >>
  /\ log = << >>
  /\ args = NoArgs
  /\ ret = "none"
  /\ issued = { }

Next ==
  \/ pc = "idle" /\ \E r \in WaitlistRequests : WaitlistHandler(r)
  \/ \E o \in MailOutcomes : WaitlistUserSettles(o)
  \/ \E o \in MailOutcomes : WaitlistAdminSettles(o)
  \/ \E o \in BlindOutcomes : WaitlistContactsSettles(o)
  \/ pc = "idle" /\ \E r \in ReferralRequests : ReferralHandler(r)
  \/ \E o \in MailOutcomes : ReferralFriendSettles(o)
  \/ \E o \in MailOutcomes : ReferralReferrerSettles(o)
  \/ \E o \in MailOutcomes : ReferralAdminSettles(o)
  \/ \E o \in BlindOutcomes : ReferralContactsSettles(o)
  \/ pc = "idle" /\ \E r \in AlphaRequests : AlphaHandler(r)
  \/ \E reply \in VerifyReplies : AlphaTurnstileSettles(reply)
  \/ \E o \in BlindOutcomes : AlphaAdminSettles(o)
  \/ \E o \in BlindOutcomes : AlphaUserSettles(o)
  \/ \E o \in BlindOutcomes : AlphaContactsSettles(o)
  \/ pc = "idle" /\ \E a \in VerifierInputs : VerifyTurnstileToken(a)
  \/ \E reply \in VerifyReplies : VerifyTurnstileTokenSettles(reply)
  \/ pc = "idle" /\ \E t \in Tokens : VerifyTurnstile(t)
  \/ \E reply \in VerifyReplies : VerifyTurnstileSettles(reply)
  \/ Finish

Spec == Init /\ [][Next]_vars

\* a pending outbound call returns a response or raises an error
Settles ==
  \/ \E o \in MailOutcomes : WaitlistUserSettles(o)
  \/ \E o \in MailOutcomes : WaitlistAdminSettles(o)
  \/ \E o \in BlindOutcomes : WaitlistContactsSettles(o)
  \/ \E o \in MailOutcomes : ReferralFriendSettles(o)
  \/ \E o \in MailOutcomes : ReferralReferrerSettles(o)
  \/ \E o \in MailOutcomes : ReferralAdminSettles(o)
  \/ \E o \in BlindOutcomes : ReferralContactsSettles(o)
  \/ \E reply \in VerifyReplies : AlphaTurnstileSettles(reply)
  \/ \E o \in BlindOutcomes : AlphaAdminSettles(o)
  \/ \E o \in BlindOutcomes : AlphaUserSettles(o)
  \/ \E o \in BlindOutcomes : AlphaContactsSettles(o)
  \/ \E reply \in VerifyReplies : VerifyTurnstileTokenSettles(reply)
  \/ \E reply \in VerifyReplies : VerifyTurnstileSettles(reply)

\* every outbound call eventually returns or throws
LiveSpec == Spec /\ WF_vars(Settles)

\* the referral endpoint serving one request after another; the codes it
\* generated are kept across requests
Recycle ==
  /\ pc = "done"
  /\ pc' = "idle"
  /\ fn' = "none"
  /\ req' = NoRequest
  /\ calls' = << >>
  /\ inflight' = { }
  /\ replies' = << >>
  /\ res' = << >>
  /\ log' = << >>
  /\ UNCHANGED << env, args, ret, issued >>

NextCode ==
  \/ pc = "idle" /\ \E r \in ReferralRequests : ReferralHandler(r)
  \/ \E o \in MailOutcomes : ReferralFriendSettles(o)
  \/ \E o \in MailOutcomes : ReferralReferrerSettles(o)
  \/ \E o \in MailOutcomes : ReferralAdminSettles(o)
  \/ \E o \in BlindOutcomes : ReferralContactsSettles(o)
  \/ Recycle

SpecCode == Init /\ [][NextCode]_vars

\* ------------------------------------------------------------- properties
Handlers == { "waitlist", "referral", "alpha" }
Done == pc = "done"

\* the outbound call for job has been started in this invocation
Attempted(job) == \E i \in 1..Len(calls) : calls[i].job = job

\* how the call for job settled; "none" while it has not
JobReply(job) ==
  IF \E i \in 1..Len(replies) : calls[i].job = job
  THEN replies[CHOOSE i \in 1..Len(replies) : calls[i].job = job]
  ELSE "none"

Failed(job) == JobReply(job) \notin { "none", "ok" }

SuccessMessage ==
  CASE fn = "waitlist" -> "Successfully joined the waitlist!"
    [] fn = "referral" -> "Referral sent successfully!"
    [] OTHER -> "Alpha access request submitted!"

GenericFailure ==
  IF fn = "referral" THEN "Failed to process referral" ELSE "Failed to process signup"

RespondedOnce(status, body) == res = << Json(status, body) >>

\* C1: in the waitlist and referral handlers, once the first (critical) email
\* call has failed, by a non-2xx response or by throwing, the handler has
\* answered 500 with its generic error body, no further call (in particular
\* no contact upsert) was started, and no 200 was sent.
C1_CriticalFailureAborts ==
  (fn \in { "waitlist", "referral" } /\ Len(replies) >= 1 /\ replies[1] # "ok")
    => /\ calls[1].job = (IF fn = "waitlist" THEN "user" ELSE "friend")
       /\ Done
       /\ RespondedOnce(500, ErrorBody(GenericFailure))
       /\ Len(calls) = 1
       /\ ~Attempted("contacts")

C1_Witness ==
  /\ fn = "waitlist"
  /\ replies = << "non2xx" >>
  /\ RespondedOnce(500, ErrorBody("Failed to process signup"))

\* C2: in every endpoint, whenever a best-effort job (admin notification,
\* referrer confirmation, contact upsert) has failed, by a non-2xx response
\* or by a thrown transport error, the finished handler has answered 200
\* with exactly the success body.
BestEffortJobs == { "admin", "referrer", "contacts" }

C2_BestEffortFailureStill200 ==
  (fn \in Handlers /\ Done /\ \E j \in BestEffortJobs : Failed(j))
    => RespondedOnce(200, SuccessBody(SuccessMessage))

\* C3 as claimed: in the alpha handler a non-success response to the user
\* confirmation call makes the finished handler answer 500, not 200.
C3_UserConfirmationCritical ==
  (fn = "alpha" /\ Done /\ JobReply("user") = "non2xx")
    => RespondedOnce(500, ErrorBody(GenericFailure))

\* C3 amended: in the alpha handler the user confirmation email is a
\* best-effort job: after a non-success response to it the dispatcher goes
\* on to the contact upsert, and the handler answers 200 with the success
\* body and never 500.
C3_UserConfirmationBestEffort ==
  (fn = "alpha" /\ JobReply("user") = "non2xx")
    => /\ Attempted("contacts")
       /\ IF Done THEN RespondedOnce(200, SuccessBody(SuccessMessage)) ELSE res = << >>

C3_Witness ==
  /\ fn = "alpha"
  /\ JobReply("user") = "non2xx"
  /\ RespondedOnce(200, SuccessBody("Alpha access request submitted!"))


\* C4: in every endpoint a POST payload with a required field missing or
\* empty is answered 400, and no outbound call is made in that request,
\* whatever the configuration.
RequiredFields ==
  CASE fn = "waitlist" -> { "email" }
    [] fn = "referral" -> { "referrerName", "referrerEmail", "friendName", "friendEmail" }
    [] fn = "alpha" -> { "name", "email", "github", "discovery", "motivation" }
    [] OTHER -> { }

Posted == fn \in Handlers /\ req.method = "POST" /\ req.hasBody

MissingRequired == \E k \in RequiredFields : req.body[k] \in { Undefined, EmptyStr }

C4_MissingFieldRejectedBeforeAnyCall ==
  (Posted /\ MissingRequired)
    => /\ Done
       /\ Len(res) = 1
       /\ res[1].status = 400
       /\ res[1].body.kind = "error"
       /\ calls = << >>

C4_Witness ==
  /\ fn = "alpha"
  /\ Posted
  /\ req.body.discovery = Undefined
  /\ \A k \in RequiredFields \ { "discovery" } : Truthy(req.body[k])
  /\ Truthy(env.SENDGRID_API_KEY)
  /\ RespondedOnce(400, ErrorBody("All fields are required"))

\* C5: in the alpha handler with the bot-verification secret configured, a
\* submission reaches the dispatcher (an email or contact call, or a 200
\* answer to a POST) only if verification returned true for its token; a
\* submission without a token is answered 400.
C5_DispatchOnlyAfterVerification ==
  (/\ fn = "alpha"
   /\ req.method = "POST"
   /\ Truthy(env.TURNSTILE_SECRET_KEY)
   /\ \/ \E i \in 1..Len(calls) : calls[i].url # TURNSTILE_VERIFY_URL
      \/ \E i \in 1..Len(res) : res[i].status = 200)
    => ret = "true"

\* C6: verifyTurnstileToken with the secret set and the token empty or
\* absent returns false and makes no call to the verification endpoint.
C6_EmptyTokenRejectedWithoutCall ==
  (fn = "verifyTurnstileToken" /\ Truthy(args.secretKey) /\ Falsy(args.token))
    => Done /\ ret = "false" /\ calls = << >>

C6_Witness ==
  /\ fn = "verifyTurnstileToken"
  /\ args.secretKey = << "k" >>
  /\ args.token = EmptyStr
  /\ ret = "false"
  /\ calls = << >>

\* C7: with the secret unset, verifyTurnstileToken and the alpha handler's
\* verifyTurnstile return true for every token, the empty and the undefined
\* one included, and make no network call.
C7_NoSecretFailsOpen ==
  (fn \in { "verifyTurnstileToken", "verifyTurnstile" } /\ Falsy(args.secretKey))
    => Done /\ ret = "true" /\ calls = << >>

C7_Witness ==
  /\ fn = "verifyTurnstile"
  /\ env.TURNSTILE_SECRET_KEY = Undefined
  /\ args.token = Undefined
  /\ ret = "true"
  /\ calls = << >>

\* C8: with secret and token both present the verifier makes exactly one
\* POST to the verification endpoint, carrying the secret and the token, and
\* returns the success value of the parsed reply; when the call throws or the
\* reply cannot be parsed it returns false; it returns a value in every case.
VerifierRan ==
  /\ fn \in { "verifyTurnstileToken", "verifyTurnstile", "alpha" }
  /\ Truthy(args.secretKey)
  /\ Truthy(args.token)

SuccessOf(reply) ==
  IF reply = "success_true" THEN "true"
  ELSE IF reply = "success_false" THEN "false"
  ELSE IF reply = "success_missing" THEN "undefined"
  ELSE "false"

C8_VerifierPostsOnceAndFailsClosed ==
  VerifierRan
    => /\ Cardinality({ i \in 1..Len(calls) : calls[i].url = TURNSTILE_VERIFY_URL }) = 1
       /\ calls[1].url = TURNSTILE_VERIFY_URL
       /\ calls[1].method = "POST"
       /\ calls[1].data[1] = args.secretKey
       /\ calls[1].data[2] = args.token
       /\ IF replies = << >> THEN ret = "none" /\ ~Done
          ELSE ret = SuccessOf(replies[1]) /\ (fn # "alpha" => Done)

C8_Witness ==
  /\ fn = "verifyTurnstile"
  /\ VerifierRan
  /\ replies = << "unparseable" >>
  /\ ret = "false"
  /\ Done

\* C9: a referral submission whose two addresses are equal up to letter case
\* is answered 400 with no outbound call; with all required fields present
\* and an '@' in both addresses the body is "You cannot refer yourself".
SameLetter(c, d) ==
  c = d \/ \E i \in 1..Len(UpperChars) : { c, d } = { UpperChars[i], LowerChars[i] }

EqualIgnoringCase(a, b) ==
  Len(a) = Len(b) /\ \A i \in 1..Len(a) : SameLetter(a[i], b[i])

C9_SelfReferralRejected ==
  (/\ fn = "referral"
   /\ Posted
   /\ EqualIgnoringCase(req.body.referrerEmail, req.body.friendEmail))
    => /\ Done
       /\ Len(res) = 1
       /\ res[1].status = 400
       /\ calls = << >>
       /\ (/\ ~MissingRequired
           /\ Includes(req.body.referrerEmail, "@")
           /\ Includes(req.body.friendEmail, "@"))
            => res[1].body = ErrorBody("You cannot refer yourself")

C9_Witness ==
  /\ fn = "referral"
  /\ Posted
  /\ req.body.referrerEmail = << "A", "@", "b" >>
  /\ req.body.friendEmail = << "a", "@", "b" >>
  /\ Truthy(env.SENDGRID_API_KEY)
  /\ RespondedOnce(400, ErrorBody("You cannot refer yourself"))

\* an alpha submission that passes every rule other than the handle's format
OtherwiseValidAlpha ==
  /\ fn = "alpha"
  /\ Posted
  /\ ~MissingRequired
  /\ Includes(req.body.email, "@")
  /\ Len(req.body.motivation) >= MinMotivationLen

InvalidGithubAnswered == RespondedOnce(400, ErrorBody("Invalid GitHub username format"))

\* ^[A-Za-z0-9](?:[A-Za-z0-9]|-(?!-)){0,38}$
MatchesNoDoubleHyphen(s) ==
  /\ Len(s) \in 1..(GithubTailMax + 1)
  /\ IsAlnum(s[1])
  /\ \A i \in 2..Len(s) :
       IsAlnum(s[i]) \/ (s[i] = "-" /\ (i = Len(s) \/ s[i + 1] # "-"))

\* ^[a-zA-Z0-9](?:[a-zA-Z0-9]|-(?=[a-zA-Z0-9])){0,38}$
MatchesHyphenBeforeAlnum(s) ==
  /\ Len(s) \in 1..(GithubTailMax + 1)
  /\ IsAlnum(s[1])
  /\ \A i \in 2..Len(s) :
       IsAlnum(s[i]) \/ (s[i] = "-" /\ i < Len(s) /\ IsAlnum(s[i + 1]))

\* C10 as claimed: an otherwise valid alpha submission is answered 400
\* "Invalid GitHub username format" exactly when its handle does not match
\* ^[A-Za-z0-9](?:[A-Za-z0-9]|-(?!-)){0,38}$.
C10_RejectsUnlessNoDoubleHyphen ==
  OtherwiseValidAlpha => (InvalidGithubAnswered <=> ~MatchesNoDoubleHyphen(req.body.github))

\* C10 amended: an otherwise valid alpha submission is answered 400 "Invalid
\* GitHub username format" exactly when its handle does not match
\* ^[a-zA-Z0-9](?:[a-zA-Z0-9]|-(?=[a-zA-Z0-9])){0,38}$: first character
\* alphanumeric, at most 39 characters, every hyphen directly followed by an
\* alphanumeric character (no two hyphens in a row, none at the end).
C10_RejectsUnlessHyphenBeforeAlnum ==
  OtherwiseValidAlpha => (InvalidGithubAnswered <=> ~MatchesHyphenBeforeAlnum(req.body.github))

C10_Witness ==
  /\ OtherwiseValidAlpha
  /\ req.body.github = Rep("a", GithubTailMax) \o << "-" >>
  /\ InvalidGithubAnswered

\* ---- C11: the referral code is a function of the referrer's address alone
\* ^NC-[A-Z0-9]{1,6}$
MatchesCodePattern(code) ==
  /\ Len(code) >= 4
  /\ Len(code) <= 9
  /\ SubSeq(code, 1, 3) = << "N", "C", "-" >>
  /\ \A i \in 4..Len(code) : code[i] \in Range(UpperChars) \cup Range(DigitChars)

\* the hash left the signed 32-bit range on the negative side
WrappedNegative(email) ==
  /\ IsNegative(EmailHash(email))
  /\ Abs(EmailHash(email)).hi >= Limb \div 2

\* C11: across all requests served, two codes generated for the same
\* referrer address are the same code, whatever the friend, the names and the
\* outcome of the calls were, and every code generated matches
\* ^NC-[A-Z0-9]{1,6}$, also when the shift wrapped or the hash is negative.
C11_CodeIsFunctionOfReferrerAndWellFormed ==
  \A p \in issued :
    /\ MatchesCodePattern(p[2])
    /\ \A q \in issued : p[1] = q[1] => p[2] = q[2]

\* codes were generated for several referrers, one of them with a hash that is
\* negative and beyond 32 bits, one with a hash that wrapped to a negative
C11_Witness ==
  /\ Done
  /\ Cardinality(issued) >= 3
  /\ \E p \in issued : WrappedNegative(p[1])
  /\ \E p \in issued : IsNegative(EmailHash(p[1])) /\ ~WrappedNegative(p[1])

\* ---- C12: the email API key is absent
KeyAbsent == Falsy(env.SENDGRID_API_KEY)

PassesValidation ==
  CASE fn = "waitlist" -> WaitlistValid(req.body)
    [] fn = "referral" -> ReferralValidationError(req.body) = ""
    [] fn = "alpha" -> AlphaValidationError(req.body) = ""

\* an email send or a contact upsert was started
DispatchStarted == \E i \in 1..Len(calls) : calls[i].url # TURNSTILE_VERIFY_URL

\* the handler's Turnstile check ran and did not return true
BotRejected == fn = "alpha" /\ JobReply("turnstile") # "none" /\ ret # "true"

NotConfiguredAnswer == RespondedOnce(500, ErrorBody("Email service not configured"))

\* C12 as claimed: with the email API key absent, every submission that
\* passes validation is answered 500 "Email service not configured" by the
\* waitlist and referral handlers and 200 with the success body by the alpha
\* handler, no email or contact call is made, and a submission that fails
\* validation is answered 400.
C12_KeyAbsentAnswers ==
  (Posted /\ KeyAbsent)
    => /\ ~DispatchStarted
       /\ Done =>
            IF ~PassesValidation THEN Len(res) = 1 /\ res[1].status = 400
            ELSE IF fn = "alpha" THEN RespondedOnce(200, SuccessBody(SuccessMessage))
            ELSE NotConfiguredAnswer

\* C12 amended: as claimed, except that a valid alpha submission which the
\* bot verification rejects is answered 400 "Bot verification failed. Please
\* try again."; every valid alpha submission not so rejected is answered 200
\* with the success body.
C12_KeyAbsentAnswersUnlessBotRejected ==
  (Posted /\ KeyAbsent)
    => /\ ~DispatchStarted
       /\ Done =>
            IF ~PassesValidation THEN Len(res) = 1 /\ res[1].status = 400
            ELSE IF BotRejected
            THEN RespondedOnce(400, ErrorBody("Bot verification failed. Please try again."))
            ELSE IF fn = "alpha" THEN RespondedOnce(200, SuccessBody(SuccessMessage))
            ELSE NotConfiguredAnswer

\* a valid alpha submission was verified and accepted with the key absent
C12_Witness ==
  /\ fn = "alpha"
  /\ Posted
  /\ KeyAbsent
  /\ PassesValidation
  /\ JobReply("turnstile") = "success_true"
  /\ calls[Len(calls)].url = TURNSTILE_VERIFY_URL
  /\ RespondedOnce(200, SuccessBody("Alpha access request submitted!"))

\* ---- C13: the order in which the jobs of one request are started
IsDispatchCall(c) == c.url # TURNSTILE_VERIFY_URL

\* the email and contact jobs started so far, in the order they were started
JobsStarted ==
  LET dispatched == SelectSeq(calls, IsDispatchCall)
  IN  [ i \in 1..Len(dispatched) |-> dispatched[i].job ]

IsPrefix(s, t) == Len(s) <= Len(t) /\ SubSeq(t, 1, Len(s)) = s

\* end user first, then admin, then (referral) the referrer, then contacts
ClaimedOrder ==
  CASE fn = "waitlist" -> << "user", "admin", "contacts" >>
    [] fn = "referral" -> << "friend", "admin", "referrer", "contacts" >>
    [] fn = "alpha" -> << "user", "admin", "contacts" >>

\* the order of the statements in each handler
HandlerOrder ==
  CASE fn = "waitlist" -> << "user", "admin", "contacts" >>
    [] fn = "referral" -> << "friend", "referrer", "admin", "contacts" >>
    [] fn = "alpha" -> << "admin", "user", "contacts" >>

\* C13 as claimed: in every endpoint the jobs of one request are started
\* in the order end-user email, admin notification, (referral only) referrer
\* confirmation, contact upsert, and none is started before every earlier
\* one of this order was attempted.
C13_JobsInClaimedOrder ==
  fn \in Handlers => IsPrefix(JobsStarted, ClaimedOrder)

\* C13 amended: the jobs of one request are started in the endpoint's own
\* order (waitlist: user, admin, contacts; referral: friend, referrer, admin,
\* contacts; alpha: admin, user, contacts), and none is started before every
\* earlier one of that order was attempted.
C13_JobsInHandlerOrder ==
  fn \in Handlers => IsPrefix(JobsStarted, HandlerOrder)

\* a referral ran through all four of its jobs
C13_Witness ==
  /\ fn = "referral"
  /\ Done
  /\ JobsStarted = << "friend", "referrer", "admin", "contacts" >>

\* ---- C14: no retries, and a 200 means every job was attempted
TimesAttempted(job) == Cardinality({ i \in 1..Len(calls) : calls[i].job = job })

Answered200 == \E i \in 1..Len(res) : res[i].status = 200

\* C14: within one request every external call (bot verification, each
\* email job, contact upsert) is attempted at most once, and whenever a
\* handler has answered a submission 200 with the email API key configured,
\* every job of its endpoint's sequence was attempted exactly once.
C14_EachJobExactlyOnceBefore200 ==
  /\ \A i, j \in 1..Len(calls) : calls[i].job = calls[j].job => i = j
  /\ (fn \in Handlers /\ req.method = "POST" /\ ~KeyAbsent /\ Answered200)
       => \A k \in 1..Len(HandlerOrder) : TimesAttempted(HandlerOrder[k]) = 1

\* ---- C15: the method check
\* C15: in every endpoint a request whose method is neither POST nor OPTIONS
\* is answered 405 "Method not allowed" and an OPTIONS request is answered
\* 200 with an empty body, at once: whatever body the request carries or
\* lacks, nothing is validated or logged and no outbound call is made.
C15_OtherMethodsAnsweredAtOnce ==
  (fn \in Handlers /\ req.method # "POST")
    => /\ Done
       /\ calls = << >>
       /\ log = << >>
       /\ ret = "none"
       /\ IF req.method = "OPTIONS"
          THEN RespondedOnce(200, EndBody)
          ELSE RespondedOnce(405, ErrorBody("Method not allowed"))

\* a GET carrying a valid submission, with everything configured
C15_Witness ==
  /\ fn = "referral"
  /\ req.method = "GET"
  /\ req.hasBody
  /\ ReferralValidationError(req.body) = ""
  /\ ~KeyAbsent
  /\ RespondedOnce(405, ErrorBody("Method not allowed"))

\* ---- C16: the order of the validation rules
Rule(broken, msg) == [ broken |-> broken, msg |-> msg ]

\* the rules of the posted payload's endpoint, in the claimed order
ClaimedRules ==
  IF fn = "alpha"
  THEN << Rule(MissingRequired, "All fields are required"),
          Rule(~Includes(req.body.email, "@"), "Valid email required"),
          Rule(Len(req.body.motivation) < 20, "Please provide a more detailed motivation"),
          Rule(~MatchesHyphenBeforeAlnum(req.body.github), "Invalid GitHub username format") >>
  ELSE << Rule(MissingRequired, "All required fields must be provided"),
          Rule(~Includes(req.body.referrerEmail, "@") \/ ~Includes(req.body.friendEmail, "@"),
               "Valid email addresses required"),
          Rule(EqualIgnoringCase(req.body.referrerEmail, req.body.friendEmail),
               "You cannot refer yourself") >>

Broken(rules) == { i \in 1..Len(rules) : rules[i].broken }

Earliest(indices) == CHOOSE i \in indices : \A j \in indices : i <= j

\* C16: in the alpha and referral handlers a posted payload that breaks one
\* or more validation rules is answered 400 with the message of the rule
\* that comes first in the order presence, email shape, motivation length,
\* GitHub format (alpha) or presence, shape of both emails, referrer differs
\* from friend (referral), and no call is made.
C16_FirstFailingRuleReported ==
  (fn \in { "alpha", "referral" } /\ Posted)
    => LET rules == ClaimedRules
           broken == Broken(rules)
       IN  broken # { }
             => /\ Done
                /\ RespondedOnce(400, ErrorBody(rules[Earliest(broken)].msg))
                /\ calls = << >>

\* a payload that breaks the email, motivation and GitHub rules at once
C16_Witness ==
  /\ fn = "alpha"
  /\ Posted
  /\ Broken(ClaimedRules) = { 2, 3, 4 }
  /\ RespondedOnce(400, ErrorBody("Valid email required"))

\* ---- C17: the outbound calls of one request do not overlap
\* the calls that have not returned a response or raised an error yet
Unsettled == { i \in 1..Len(calls) : i > Len(replies) }

\* C17: in all three handlers (and the verifiers) at most one outbound call
\* of a request is in flight at any time: the calls in flight are exactly
\* the calls that have not settled, and that is at most the call begun last,
\* so each call begins only after every earlier one returned or raised.
C17_AtMostOneCallInFlight ==
  /\ Len(replies) <= Len(calls)
  /\ inflight = Unsettled
  /\ Cardinality(inflight) <= 1
  /\ inflight \subseteq { Len(calls) }

\* the alpha handler's fourth call is in flight, the three before it settled
C17_Witness ==
  /\ fn = "alpha"
  /\ JobsStarted = << "admin", "user", "contacts" >>
  /\ Len(calls) = 4
  /\ Len(replies) = 3
  /\ inflight = { 4 }

\* ---- C18: the alpha dispatch steps share one try block
AlphaSucceeded == Done /\ RespondedOnce(200, SuccessBody("Alpha access request submitted!"))

\* C18: in the alpha handler, once the admin notification call has thrown,
\* neither the user confirmation nor the contact upsert is attempted, and
\* once the user confirmation call has thrown, the contact upsert is not
\* attempted; in both cases the handler has answered 200 with the success
\* body.
C18_ThrowSkipsTheRemainingSteps ==
  fn = "alpha"
    => /\ JobReply("admin") = "throw"
            => ~Attempted("user") /\ ~Attempted("contacts") /\ AlphaSucceeded
       /\ JobReply("user") = "throw"
            => ~Attempted("contacts") /\ AlphaSucceeded

\* the admin notification threw after a successful bot verification
C18_Witness ==
  /\ fn = "alpha"
  /\ replies = << "success_true", "throw" >>
  /\ JobsStarted = << "admin" >>
  /\ AlphaSucceeded

\* ---- C19: exactly one response per invocation
ResponseStatuses == { 200, 400, 405, 500 }

\* the handler has returned, having sent one response and left no call pending
Responded ==
  /\ Done
  /\ Len(res) = 1
  /\ res[1].status \in ResponseStatuses
  /\ inflight = { }

\* once the response is sent the invocation starts no call and sends nothing more
QuietAfterResponse ==
  (fn \in Handlers /\ res # << >>)
    => \/ calls' = calls /\ res' = res
       \/ pc' = "idle"

\* C19: provided each outbound call eventually returns or throws, every
\* invocation of a handler eventually has sent a response; it never has sent
\* more than one; it returns only with exactly one response (200, 400, 405 or
\* 500) sent, so no exception escapes it; and after the response it starts
\* no outbound call and sends no second response.
C19_ExactlyOneResponse ==
  /\ [](fn \in Handlers => <>Responded)
  /\ [](fn \in Handlers => Len(res) <= 1 /\ (Done <=> res # << >>) /\ (Done => Responded))
  /\ [][QuietAfterResponse]_vars

\* a referral whose last call raised an error was answered once, after four calls
C19_Witness ==
  /\ fn = "referral"
  /\ Len(calls) = 4
  /\ replies = << "ok", "ok", "ok", "throw" >>
  /\ Responded

====
